---- MODULE Spec2Model ----
(***************************************************************************)
(* Model of INTGWNotification (integration_gateway/doctype/                *)
(* intgw_notification/intgw_notification.py): the three JSONPath           *)
(* operations resolve_path, update_path and delete_path on one JSON field  *)
(* of a document, together with the helpers _create_path,                  *)
(* _parse_path_components, _handle_wildcard_creation and                   *)
(* _clean_none_values.                                                     *)
(*                                                                         *)
(* JSON values are trees of records.  JSON text and path text are          *)
(* sequences of lexical tokens (strings), so that json.dumps/json.loads,   *)
(* the path compiler and the string surgery of _create_path are computed   *)
(* on text rather than assumed.                                            *)
(***************************************************************************)
EXTENDS Integers, Sequences, FiniteSets, TLC

(***************************************************************************)
(* JSON values (Python: None, int, str, dict, list).  A dict is the        *)
(* sequence of its members in insertion order; a list is the sequence of   *)
(* its elements, each stored with the empty key.                           *)
(***************************************************************************)
JNull == [t |-> "null", n |-> 0, s |-> "", kids |-> <<>>]
JNum(n) == [t |-> "num", n |-> n, s |-> "", kids |-> <<>>]
JStr(s) == [t |-> "str", n |-> 0, s |-> s, kids |-> <<>>]
JObj(kids) == [t |-> "obj", n |-> 0, s |-> "", kids |-> kids]
JArr(kids) == [t |-> "arr", n |-> 0, s |-> "", kids |-> kids]
Member(k, v) == [k |-> k, v |-> v]
Elem(v) == [k |-> "", v |-> v]
EmptyObj == JObj(<<>>)
EmptyArr == JArr(<<>>)

IsNone(v) == v.t = "null"
IsDict(v) == v.t = "obj"
IsList(v) == v.t = "arr"
IsStr(v) == v.t = "str"
IsInt(v) == v.t = "num"
IsContainer(v) == IsDict(v) \/ IsList(v)

\* Python truth value of a JSON value (`if datum.value`, `not datum.value`).
Truthy(v) ==
    CASE v.t = "null" -> FALSE
      [] v.t = "num" -> v.n # 0
      [] v.t = "str" -> v.s # ""
      [] OTHER -> Len(v.kids) > 0

\* Python len() of a str, list or dict.
PyLen(v) == IF IsStr(v) THEN Len(v.s) ELSE Len(v.kids)

\* Position of key k in a dict, 0 when absent (`k in d`).
KeyPos(v, k) ==
    IF \E p \in 1..Len(v.kids) : v.kids[p].k = k
    THEN CHOOSE p \in 1..Len(v.kids) : v.kids[p].k = k
    ELSE 0

HasKey(v, k) == KeyPos(v, k) # 0

\* d[k] = x on a dict: overwrite in place, or append a new last member.
DictSet(v, k, x) ==
    IF HasKey(v, k)
    THEN JObj([v.kids EXCEPT ![KeyPos(v, k)] = Member(k, x)])
    ELSE JObj(Append(v.kids, Member(k, x)))

\* l[p] = x on a list, p a 1-based position.
ListSet(v, p, x) == JArr([v.kids EXCEPT ![p] = Elem(x)])

\* Remove the kids at the positions in S, keeping the order of the rest.
RECURSIVE DropKids(_, _, _)
DropKids(kids, S, p) ==
    IF p > Len(kids) THEN <<>>
    ELSE IF p \in S THEN DropKids(kids, S, p + 1)
    ELSE <<kids[p]>> \o DropKids(kids, S, p + 1)

\* Locations: a location is the sequence of kid positions from the root.
RECURSIVE GetAt(_, _)
GetAt(v, loc) ==
    IF loc = <<>> THEN v ELSE GetAt(v.kids[Head(loc)].v, Tail(loc))

RECURSIVE SetAt(_, _, _)
SetAt(v, loc, x) ==
    IF loc = <<>> THEN x
    ELSE [v EXCEPT !.kids[Head(loc)].v = SetAt(v.kids[Head(loc)].v, Tail(loc), x)]

IsPrefix(a, b) == Len(a) <= Len(b) /\ SubSeq(b, 1, Len(a)) = a

(***************************************************************************)
(* json.dumps / json.loads on token sequences.  Whitespace (indent=4) is   *)
(* not a token: the text is modelled after lexing.                         *)
(***************************************************************************)
MaxInt == 9
MinInt == 0 - MaxInt
Ints == MinInt..MaxInt
KeyNames == {"a", "b", "c", "arr", "id", "name", "tag", "x", "y", "k", "0",
             "b.c", "arr[0:2]", "arr[?(@", "id==1)]"}
StrValues == {"t", "s"}

Quote(s) == "\"" \o s \o "\""

ScalarTok(v) ==
    CASE v.t = "null" -> "null"
      [] v.t = "num" -> ToString(v.n)
      [] OTHER -> Quote(v.s)

Scalars == {JNull} \cup {JNum(n) : n \in Ints} \cup {JStr(s) : s \in StrValues \cup KeyNames}

\* The lexer's tables: the scalar, the key and the int a token stands for.
ScalarOf == [tok \in {ScalarTok(v) : v \in Scalars} |-> CHOOSE v \in Scalars : ScalarTok(v) = tok]
KeyOf == [tok \in {Quote(k) : k \in KeyNames} |-> CHOOSE k \in KeyNames : Quote(k) = tok]
IntOf == [tok \in {ToString(n) : n \in Ints} |-> CHOOSE n \in Ints : ToString(n) = tok]

IsScalarTok(tok) == tok \in DOMAIN ScalarOf
ScalarOfTok(tok) == ScalarOf[tok]
IsKeyTok(tok) == tok \in DOMAIN KeyOf
KeyOfTok(tok) == KeyOf[tok]

RECURSIVE Dumps(_), DumpsKids(_, _)
Dumps(v) ==
    CASE IsDict(v) -> <<"{">> \o DumpsKids(v.kids, TRUE) \o <<"}">>
      [] IsList(v) -> <<"[">> \o DumpsKids(v.kids, FALSE) \o <<"]">>
      [] OTHER -> <<ScalarTok(v)>>
DumpsKids(kids, keyed) ==
    IF kids = <<>> THEN <<>>
    ELSE (IF keyed THEN <<Quote(Head(kids).k), ":">> ELSE <<>>)
         \o Dumps(Head(kids).v)
         \o (IF Len(kids) > 1 THEN <<",">> ELSE <<>>)
         \o DumpsKids(Tail(kids), keyed)

\* A parse result: ok, the value, and the tokens left over.
ParseFail == [ok |-> FALSE, val |-> JNull, rest |-> <<>>]
ParseOk(v, rest) == [ok |-> TRUE, val |-> v, rest |-> rest]

RECURSIVE ParseValue(_), ParseMembers(_, _), ParseElements(_, _)
ParseValue(toks) ==
    IF toks = <<>> THEN ParseFail
    ELSE IF Head(toks) = "{" THEN
        IF Len(toks) >= 2 /\ toks[2] = "}"
        THEN ParseOk(EmptyObj, SubSeq(toks, 3, Len(toks)))
        ELSE ParseMembers(Tail(toks), EmptyObj)
    ELSE IF Head(toks) = "[" THEN
        IF Len(toks) >= 2 /\ toks[2] = "]"
        THEN ParseOk(EmptyArr, SubSeq(toks, 3, Len(toks)))
        ELSE ParseElements(Tail(toks), EmptyArr)
    ELSE IF IsScalarTok(Head(toks)) THEN ParseOk(ScalarOfTok(Head(toks)), Tail(toks))
    ELSE ParseFail
ParseMembers(toks, acc) ==
    IF Len(toks) < 3 \/ ~IsKeyTok(toks[1]) \/ toks[2] # ":" THEN ParseFail
    ELSE LET r == ParseValue(SubSeq(toks, 3, Len(toks)))
             d == DictSet(acc, KeyOfTok(toks[1]), r.val)
         IN IF ~r.ok \/ r.rest = <<>> THEN ParseFail
            ELSE IF Head(r.rest) = "}" THEN ParseOk(d, Tail(r.rest))
            ELSE IF Head(r.rest) = "," THEN ParseMembers(Tail(r.rest), d)
            ELSE ParseFail
ParseElements(toks, acc) ==
    LET r == ParseValue(toks)
        l == JArr(Append(acc.kids, Elem(r.val)))
    IN IF ~r.ok \/ r.rest = <<>> THEN ParseFail
       ELSE IF Head(r.rest) = "]" THEN ParseOk(l, Tail(r.rest))
       ELSE IF Head(r.rest) = "," THEN ParseElements(Tail(r.rest), l)
       ELSE ParseFail

\* json.loads: ok is FALSE for JSONDecodeError.
Loads(toks) ==
    LET r == ParseValue(toks)
    IN IF r.ok /\ r.rest = <<>> THEN [ok |-> TRUE, val |-> r.val]
       ELSE [ok |-> FALSE, val |-> JNull]

(***************************************************************************)
(* Path text.  A path is the sequence of its lexical tokens; `..` is two   *)
(* consecutive "." tokens, so that the substring tests of update_path      *)
(* ('*' in path, '..' in path) and the splits of _create_path read the     *)
(* same text that the compiler reads.                                      *)
(***************************************************************************)
CmpOps == {"==", "!=", "<", "<=", ">", ">="}
Punct == {"$", ".", "[", "]", "*", ":", "?", "(", ")", "@", "'", " "} \cup CmpOps

IsIntTok(tok) == tok \in DOMAIN IntOf
IntOfTok(tok) == IntOf[tok]
IsNameTok(tok) == tok \notin Punct /\ ~IsIntTok(tok)

\* Selectors of a compiled expression (jsonpath_ng: Fields, Index, Slice,
\* Filter, Descendants; `[*]` compiles to the slice without bounds).
SField(name) == [sel |-> "field", name |-> name, i |-> 0, j |-> 0, hasI |-> FALSE, hasJ |-> FALSE, op |-> ""]
SIndex(i) == [sel |-> "index", name |-> "", i |-> i, j |-> 0, hasI |-> TRUE, hasJ |-> FALSE, op |-> ""]
SSlice(hasI, i, hasJ, j) == [sel |-> "slice", name |-> "", i |-> i, j |-> j, hasI |-> hasI, hasJ |-> hasJ, op |-> ""]
SFilter(name, op, i) == [sel |-> "filter", name |-> name, i |-> i, j |-> 0, hasI |-> TRUE, hasJ |-> FALSE, op |-> op]
SDesc(name) == [sel |-> "desc", name |-> name, i |-> 0, j |-> 0, hasI |-> FALSE, hasJ |-> FALSE, op |-> ""]

CompileFail == [ok |-> FALSE, sels |-> <<>>]

\* toks starts with the tokens pat.
StartsWith(toks, pat) == Len(toks) >= Len(pat) /\ SubSeq(toks, 1, Len(pat)) = pat
Drop(toks, n) == SubSeq(toks, n + 1, Len(toks))

RECURSIVE CompileSteps(_, _)
CompileSteps(toks, acc) ==
    IF toks = <<>> THEN [ok |-> TRUE, sels |-> acc]
    ELSE IF StartsWith(toks, <<".", ".">>) /\ Len(toks) >= 3 /\ IsNameTok(toks[3])
        THEN CompileSteps(Drop(toks, 3), Append(acc, SDesc(toks[3])))
    ELSE IF Head(toks) = "." /\ Len(toks) >= 2 /\ IsNameTok(toks[2])
        THEN CompileSteps(Drop(toks, 2), Append(acc, SField(toks[2])))
    ELSE IF StartsWith(toks, <<"[", "*", "]">>)
        THEN CompileSteps(Drop(toks, 3), Append(acc, SSlice(FALSE, 0, FALSE, 0)))
    ELSE IF Len(toks) >= 3 /\ toks[1] = "[" /\ IsIntTok(toks[2]) /\ toks[3] = "]"
        THEN CompileSteps(Drop(toks, 3), Append(acc, SIndex(IntOfTok(toks[2]))))
    ELSE IF Len(toks) >= 5 /\ toks[1] = "[" /\ IsIntTok(toks[2]) /\ toks[3] = ":"
            /\ IsIntTok(toks[4]) /\ toks[5] = "]"
        THEN CompileSteps(Drop(toks, 5),
                 Append(acc, SSlice(TRUE, IntOfTok(toks[2]), TRUE, IntOfTok(toks[4]))))
    ELSE IF Len(toks) >= 4 /\ toks[1] = "[" /\ toks[2] = ":" /\ IsIntTok(toks[3]) /\ toks[4] = "]"
        THEN CompileSteps(Drop(toks, 4), Append(acc, SSlice(FALSE, 0, TRUE, IntOfTok(toks[3]))))
    ELSE IF Len(toks) >= 4 /\ toks[1] = "[" /\ IsIntTok(toks[2]) /\ toks[3] = ":" /\ toks[4] = "]"
        THEN CompileSteps(Drop(toks, 4), Append(acc, SSlice(TRUE, IntOfTok(toks[2]), FALSE, 0)))
    ELSE IF Len(toks) >= 10 /\ SubSeq(toks, 1, 5) = <<"[", "?", "(", "@", ".">>
            /\ IsNameTok(toks[6]) /\ toks[7] \in CmpOps /\ IsIntTok(toks[8])
            /\ toks[9] = ")" /\ toks[10] = "]"
        THEN CompileSteps(Drop(toks, 10), Append(acc, SFilter(toks[6], toks[7], IntOfTok(toks[8]))))
    ELSE IF Len(toks) >= 5 /\ toks[1] = "[" /\ toks[2] = "'" /\ IsNameTok(toks[3])
            /\ toks[4] = "'" /\ toks[5] = "]"
        THEN CompileSteps(Drop(toks, 5), Append(acc, SField(toks[3])))
    ELSE CompileFail

\* jsonpath_ng.ext.parse on the path alphabet of the model: `$` followed by
\* .name, ..name, ['name'], [i], [*], [i:j], [?(@.name OP int)].  ok is FALSE
\* for JSONPathError.
Compile(toks) ==
    IF toks # <<>> /\ Head(toks) = "$" THEN CompileSteps(Tail(toks), <<>>)
    ELSE CompileFail

(***************************************************************************)
(* Evaluation (jsonpath_expr.find).  nullMatch tells whether Fields.find   *)
(* of the installed jsonpath_ng reports a member whose value is None       *)
(* (datum.value[field]) or skips it (datum.value.get(field) is None).      *)
(* A result is err (an exception escaped) or the matches in order, each a  *)
(* location relative to the value searched.                                *)
(***************************************************************************)
FindErr == [err |-> TRUE, locs |-> <<>>]
Found(locs) == [err |-> FALSE, locs |-> locs]

Min(a, b) == IF a < b THEN a ELSE b
Max(a, b) == IF a > b THEN a ELSE b

\* Python's clamping of one slice bound against a sequence of length n.
SliceBound(i, n) == IF i < 0 THEN Max(n + i, 0) ELSE Min(i, n)
\* 0-based indices of range(0, n)[start:end].
SliceLo(sel, n) == IF sel.hasI THEN SliceBound(sel.i, n) ELSE 0
SliceHi(sel, n) == IF sel.hasJ THEN SliceBound(sel.j, n) ELSE n

\* Fields.get_field_datum: the position of the member matched, 0 for none.
FieldMatch(v, name, nullMatch) ==
    IF IsDict(v) /\ HasKey(v, name)
       /\ (nullMatch \/ ~IsNone(v.kids[KeyPos(v, name)].v))
    THEN KeyPos(v, name)
    ELSE 0

Compare(op, a, b) ==
    CASE op = "==" -> a = b
      [] op = "!=" -> a # b
      [] op = "<" -> a < b
      [] op = "<=" -> a <= b
      [] op = ">" -> a > b
      [] OTHER -> a >= b

\* Expression.find of `@.name OP int` on one element: "hit", "miss", or "err"
\* (int() of None, a dict or a list raises TypeError; int() of a non-numeric
\* string raises ValueError, which skips the element).
ExprHolds(sel, e, nullMatch) ==
    LET p == FieldMatch(e, sel.name, nullMatch)
        x == e.kids[p].v
    IN IF p = 0 THEN "miss"
       ELSE IF IsInt(x) THEN (IF Compare(sel.op, x.n, sel.i) THEN "hit" ELSE "miss")
       ELSE IF IsStr(x) THEN "miss"
       ELSE "err"

\* The locations <<p>> for the positions p of lo..hi that are in S, ascending.
RECURSIVE Positions(_, _, _)
Positions(lo, hi, S) ==
    IF lo > hi THEN <<>>
    ELSE (IF lo \in S THEN << <<lo>> >> ELSE <<>>) \o Positions(lo + 1, hi, S)

\* Descendants.find / match_recursively with right side Fields(name).
RECURSIVE DescFind(_, _, _), DescKids(_, _, _, _)
DescFind(v, name, nullMatch) ==
    (IF FieldMatch(v, name, nullMatch) # 0
     THEN << <<FieldMatch(v, name, nullMatch)>> >> ELSE <<>>)
    \o (IF IsContainer(v) THEN DescKids(v, name, nullMatch, 1) ELSE <<>>)
DescKids(v, name, nullMatch, p) ==
    IF p > Len(v.kids) THEN <<>>
    ELSE LET sub == DescFind(v.kids[p].v, name, nullMatch)
         IN [q \in 1..Len(sub) |-> <<p>> \o sub[q]] \o DescKids(v, name, nullMatch, p + 1)

\* Index.find: `if datum.value and len(datum.value) > self.index`, then
\* datum.value[self.index].  A str of length 1 indexed at 0 or -1 yields
\* itself (the model's strings have length 1).
IndexFind(sel, v) ==
    IF ~Truthy(v) THEN Found(<<>>)
    ELSE IF IsInt(v) THEN FindErr
    ELSE IF ~(PyLen(v) > sel.i) THEN Found(<<>>)
    ELSE IF IsDict(v) THEN FindErr
    ELSE IF sel.i < 0 /\ 0 - sel.i > PyLen(v) THEN FindErr
    ELSE IF IsStr(v) THEN Found(<< <<>> >>)
    ELSE Found(<< <<IF sel.i >= 0 THEN sel.i + 1 ELSE PyLen(v) + sel.i + 1>> >>)

\* Slice.find: a falsy value gives nothing; a dict, int or str is wrapped in
\* a one-element list; a list yields the indices of range(0, len)[i:j].
SliceFind(sel, v) ==
    IF ~Truthy(v) THEN Found(<<>>)
    ELSE IF ~IsList(v)
    THEN (IF SliceLo(sel, 1) = 0 /\ SliceHi(sel, 1) = 1 THEN Found(<< <<>> >>) ELSE Found(<<>>))
    ELSE Found(Positions(SliceLo(sel, Len(v.kids)) + 1, SliceHi(sel, Len(v.kids)),
                         1..Len(v.kids)))

\* Filter.find: the values of a dict or the elements of a list that satisfy
\* the expression.
FilterFind(sel, v, nullMatch) ==
    IF ~IsContainer(v) THEN Found(<<>>)
    ELSE IF \E p \in 1..Len(v.kids) : ExprHolds(sel, v.kids[p].v, nullMatch) = "err"
    THEN FindErr
    ELSE Found(Positions(1, Len(v.kids),
                         {p \in 1..Len(v.kids) : ExprHolds(sel, v.kids[p].v, nullMatch) = "hit"}))

FindOne(sel, v, nullMatch) ==
    CASE sel.sel = "field" ->
           (IF FieldMatch(v, sel.name, nullMatch) # 0
            THEN Found(<< <<FieldMatch(v, sel.name, nullMatch)>> >>) ELSE Found(<<>>))
      [] sel.sel = "index" -> IndexFind(sel, v)
      [] sel.sel = "slice" -> SliceFind(sel, v)
      [] sel.sel = "filter" -> FilterFind(sel, v, nullMatch)
      [] OTHER -> Found(DescFind(v, sel.name, nullMatch))

\* Child.find: every match of the left side is searched with the selector.
RECURSIVE FindStep(_, _, _, _)
FindStep(sel, root, locs, nullMatch) ==
    IF locs = <<>> THEN Found(<<>>)
    ELSE LET r == FindOne(sel, GetAt(root, Head(locs)), nullMatch)
             rest == FindStep(sel, root, Tail(locs), nullMatch)
         IN IF r.err \/ rest.err THEN FindErr
            ELSE Found([q \in 1..Len(r.locs) |-> Head(locs) \o r.locs[q]] \o rest.locs)

RECURSIVE FindFrom(_, _, _, _)
FindFrom(sels, root, locs, nullMatch) ==
    IF sels = <<>> THEN Found(locs)
    ELSE LET r == FindStep(Head(sels), root, locs, nullMatch)
         IN IF r.err THEN FindErr ELSE FindFrom(Tail(sels), root, r.locs, nullMatch)

\* jsonpath_expr.find(json_data)
Find(sels, root, nullMatch) == FindFrom(sels, root, << <<>> >>, nullMatch)

\* [match.value for match in matches]
MatchValues(root, locs) == [q \in 1..Len(locs) |-> GetAt(root, locs[q])]

(***************************************************************************)
(* Mutation (jsonpath_expr.update).  Child.update applies the update of    *)
(* the last selector to the value of every match of the selectors before   *)
(* it.  A step result is err, the new value, and the relative locations    *)
(* whose content was replaced.                                             *)
(***************************************************************************)
StepErr == [err |-> TRUE, val |-> JNull, wrote |-> {}]
StepOk(v, wrote) == [err |-> FALSE, val |-> v, wrote |-> wrote]

\* `x in data` for a str x: key of a dict, element of a list, substring of a
\* str (strings of the model have length 1: a substring is the string).
\* Undefined (TypeError) for an int or None.
PyContains(v, name) ==
    CASE IsDict(v) -> HasKey(v, name)
      [] IsList(v) -> \E p \in 1..Len(v.kids) : v.kids[p].v = JStr(name)
      [] OTHER -> v.s = name

\* Fields.update: `if data is not None: if field in data: data[field] = val`.
FieldUpdate(name, v, val) ==
    IF IsNone(v) THEN StepOk(v, {})
    ELSE IF IsInt(v) THEN StepErr
    ELSE IF ~PyContains(v, name) THEN StepOk(v, {})
    ELSE IF ~IsDict(v) THEN StepErr
    ELSE StepOk(DictSet(v, name, val), {<<KeyPos(v, name)>>})

\* Index.update: `elif len(data) > self.index: data[self.index] = val`.  On a
\* dict the assignment adds the int key, which json.dumps writes as text.
IndexUpdate(i, v, val) ==
    IF IsNone(v) \/ IsInt(v) THEN StepErr
    ELSE IF ~(PyLen(v) > i) THEN StepOk(v, {})
    ELSE IF IsStr(v) THEN StepErr
    ELSE IF IsDict(v)
    THEN StepOk(DictSet(v, ToString(i), val), {<<KeyPos(DictSet(v, ToString(i), val), ToString(i))>>})
    ELSE IF i < 0 /\ 0 - i > PyLen(v) THEN StepErr
    ELSE StepOk(ListSet(v, IF i >= 0 THEN i + 1 ELSE PyLen(v) + i + 1, val),
                {<<IF i >= 0 THEN i + 1 ELSE PyLen(v) + i + 1>>})

\* Overwrite the elements of a list at the positions of S.
SetElems(v, S, val) ==
    JArr([p \in 1..Len(v.kids) |-> IF p \in S THEN Elem(val) ELSE v.kids[p]])

\* A Slice.update that stops after the first datum.
SliceUpdateFirstOnly(sel, v, val) ==
    LET f == SliceFind(sel, v)
    IN IF f.locs = <<>> THEN StepOk(v, {})
       ELSE IF ~IsList(v) THEN IndexUpdate(0, v, val)
       ELSE StepOk(SetElems(v, {f.locs[1][1]}, val), {f.locs[1]})

\* Slice.update: `for datum in self.find(data): datum.path.update(data, val)`.
SliceUpdate(sel, v, val) ==
    LET f == SliceFind(sel, v)
    IN IF f.locs = <<>> THEN StepOk(v, {})
       ELSE IF ~IsList(v) THEN IndexUpdate(0, v, val)
       ELSE StepOk(SetElems(v, {f.locs[q][1] : q \in 1..Len(f.locs)}, val),
                   {f.locs[q] : q \in 1..Len(f.locs)})

\* Filter.update: only `if type(data) is list`.
FilterUpdate(sel, v, val, nullMatch) ==
    IF ~IsList(v) THEN StepOk(v, {})
    ELSE IF \E p \in 1..Len(v.kids) : ExprHolds(sel, v.kids[p].v, nullMatch) = "err"
    THEN StepErr
    ELSE LET S == {p \in 1..Len(v.kids) : ExprHolds(sel, v.kids[p].v, nullMatch) = "hit"}
         IN StepOk(SetElems(v, S, val), {<<p>> : p \in S})

\* Descendants.update / update_recursively with right side Fields(name):
\* update the container, then every child of the updated container.
RECURSIVE DescUpdate(_, _, _), DescUpdateKids(_, _, _, _)
DescUpdate(name, v, val) ==
    IF ~IsContainer(v) THEN StepOk(v, {})
    ELSE LET r == FieldUpdate(name, v, val)
         IN IF r.err THEN StepErr ELSE DescUpdateKids(name, r.val, val, 1)
DescUpdateKids(name, v, val, p) ==
    IF p > Len(v.kids) THEN StepOk(v, {})
    ELSE LET r == DescUpdate(name, v.kids[p].v, val)
         IN IF r.err THEN StepErr
            ELSE DescUpdateKids(name, [v EXCEPT !.kids[p].v = r.val], val, p + 1)

\* Inner loops that stop after the first object of the array.
ItemsUpdateFirstOnly(name, v, val) ==
    IF ~IsList(v) THEN StepOk(v, {})
    ELSE LET dicts == {p \in 1..Len(v.kids) : IsDict(v.kids[p].v)}
         IN StepOk(JArr([p \in 1..Len(v.kids) |->
                           IF p \in dicts /\ \A q \in dicts : p <= q
                           THEN Elem(DictSet(v.kids[p].v, name, val))
                           ELSE v.kids[p]]),
                   {})

\* _handle_wildcard_creation, the inner loops: `for item in match.value:
\* if isinstance(item, dict): item[field_name] = value`.
ItemsUpdate(name, v, val) ==
    IF ~IsList(v) THEN StepOk(v, {})
    ELSE StepOk(JArr([p \in 1..Len(v.kids) |->
                        IF IsDict(v.kids[p].v)
                        THEN Elem(DictSet(v.kids[p].v, name, val))
                        ELSE v.kids[p]]),
                {<<p, KeyPos(v.kids[p].v, name)>> :
                    p \in {q \in 1..Len(v.kids) :
                             IsDict(v.kids[q].v) /\ HasKey(v.kids[q].v, name)}})

SItems(name) == [sel |-> "items", name |-> name, i |-> 0, j |-> 0, hasI |-> FALSE, hasJ |-> FALSE, op |-> ""]

UpdateLast(sel, v, val, nullMatch) ==
    CASE sel.sel = "field" -> FieldUpdate(sel.name, v, val)
      [] sel.sel = "index" -> IndexUpdate(sel.i, v, val)
      [] sel.sel = "slice" -> SliceUpdate(sel, v, val)
      [] sel.sel = "filter" -> FilterUpdate(sel, v, val, nullMatch)
      [] sel.sel = "items" -> ItemsUpdate(sel.name, v, val)
      [] OTHER ->
           LET r == DescUpdate(sel.name, v, val)
               d == DescFind(v, sel.name, TRUE)
           IN IF r.err THEN StepErr ELSE StepOk(r.val, {d[q] : q \in 1..Len(d)})

\* The loop over the matches of the left side.  The matches were collected
\* before the first assignment: a match below a location that an earlier
\* assignment replaced is no longer part of the tree, and what is assigned
\* into it is lost (orig is the tree as it was when they were collected).
RECURSIVE UpdateEach(_, _, _, _, _, _, _)
UpdateEach(sel, cur, orig, parents, written, val, nullMatch) ==
    IF parents = <<>> THEN [err |-> FALSE, val |-> cur]
    ELSE LET P == Head(parents)
             detached == \E w \in written : IsPrefix(w, P)
             r == UpdateLast(sel, GetAt(IF detached THEN orig ELSE cur, P), val, nullMatch)
         IN IF r.err THEN [err |-> TRUE, val |-> cur]
            ELSE IF detached
            THEN UpdateEach(sel, cur, orig, Tail(parents), written, val, nullMatch)
            ELSE UpdateEach(sel, SetAt(cur, P, r.val), orig, Tail(parents),
                            written \cup {P \o w : w \in r.wrote}, val, nullMatch)

Front(q) == SubSeq(q, 1, Len(q) - 1)
Last(q) == q[Len(q)]

\* An update that assigns below the first match of the left side only.
UpdateFirstParentOnly(sels, root, val, nullMatch) ==
    IF sels = <<>> THEN [err |-> FALSE, val |-> root]
    ELSE LET left == Find(Front(sels), root, nullMatch)
         IN IF left.err THEN [err |-> TRUE, val |-> root]
            ELSE UpdateEach(Last(sels), root, root, SubSeq(left.locs, 1, 1), {}, val, nullMatch)

\* jsonpath_expr.update(json_data, val), the tree afterwards.  Root.update
\* returns val and leaves json_data as it is.
Update(sels, root, val, nullMatch) ==
    IF sels = <<>> THEN [err |-> FALSE, val |-> root]
    ELSE LET left == Find(Front(sels), root, nullMatch)
         IN IF left.err THEN [err |-> TRUE, val |-> root]
            ELSE UpdateEach(Last(sels), root, root, left.locs, {}, val, nullMatch)

(***************************************************************************)
(* _clean_none_values                                                      *)
(***************************************************************************)
RECURSIVE CleanNoneValues(_), CleanKids(_), CleanKidsSkipNext(_), CleanKidsSwapRemove(_)
\* A clean-up that does not descend: None is removed from the top level only.
CleanNoneValuesShallow(data) ==
    IF IsContainer(data)
    THEN [data EXCEPT !.kids = SelectSeq(data.kids, LAMBDA kid : ~IsNone(kid.v))]
    ELSE data
CleanNoneValues(data) ==
    IF IsContainer(data) THEN [data EXCEPT !.kids = CleanKids(data.kids)] ELSE data
\* A clean-up that removes while it iterates: the kid after a removed one is
\* stepped over.
CleanKidsSkipNext(kids) ==
    IF kids = <<>> THEN <<>>
    ELSE IF IsNone(Head(kids).v)
    THEN IF Tail(kids) = <<>> THEN <<>>
         ELSE <<Head(Tail(kids))>> \o CleanKidsSkipNext(Tail(Tail(kids)))
    ELSE <<[Head(kids) EXCEPT !.v = CleanNoneValues(Head(kids).v)]>> \o CleanKidsSkipNext(Tail(kids))
\* A clean-up that fills the place of a removed kid with the last kid.
CleanKidsSwapRemove(kids) ==
    IF kids = <<>> THEN <<>>
    ELSE IF IsNone(Head(kids).v)
    THEN IF Len(kids) = 1 THEN <<>>
         ELSE CleanKidsSwapRemove(<<kids[Len(kids)]>> \o SubSeq(kids, 2, Len(kids) - 1))
    ELSE <<[Head(kids) EXCEPT !.v = CleanNoneValues(Head(kids).v)]>> \o CleanKidsSwapRemove(Tail(kids))
CleanKids(kids) ==
    IF kids = <<>> THEN <<>>
    ELSE IF IsNone(Head(kids).v) THEN CleanKids(Tail(kids))
    ELSE <<[Head(kids) EXCEPT !.v = CleanNoneValues(Head(kids).v)]>> \o CleanKids(Tail(kids))

(***************************************************************************)
(* _parse_path_components, _create_path, _handle_wildcard_creation         *)
(***************************************************************************)
RECURSIVE Concat(_)
Concat(toks) == IF toks = <<>> THEN "" ELSE Head(toks) \o Concat(Tail(toks))

\* str.split(sep) on token sequences: the pieces between the occurrences of
\* pat, found left to right without overlap.
RECURSIVE SplitOn(_, _, _)
SplitOn(toks, pat, acc) ==
    IF toks = <<>> THEN <<acc>>
    ELSE IF StartsWith(toks, pat) THEN <<acc>> \o SplitOn(Drop(toks, Len(pat)), pat, <<>>)
    ELSE SplitOn(Tail(toks), pat, Append(acc, Head(toks)))

HasTok(toks, tok) == \E q \in 1..Len(toks) : toks[q] = tok
HasToks(toks, pat) == \E q \in 0..Len(toks) : StartsWith(Drop(toks, q), pat)

Component(key, isArray, index) == [key |-> key, is_array |-> isArray, index |-> index]

\* One part of path.split('.'): err for `raise DataError("Invalid array
\* index ...")` when int(index_part) raises ValueError.
ParsePart(part) ==
    IF HasTok(part, "[") /\ HasTok(part, "]")
    THEN LET pieces == SplitOn(part, <<"[">>, <<>>)
             index_part == SplitOn(pieces[2], <<"]">>, <<>>)[1]
         IN IF Len(index_part) = 1 /\ IsIntTok(index_part[1])
            THEN [err |-> FALSE, c |-> Component(Concat(pieces[1]), TRUE, IntOfTok(index_part[1]))]
            ELSE [err |-> TRUE, c |-> Component("", FALSE, 0)]
    ELSE [err |-> FALSE, c |-> Component(Concat(part), FALSE, 0)]

ParsePathComponents(path) ==
    LET parts == SplitOn(path, <<".">>, <<>>)
    IN [err |-> \E q \in 1..Len(parts) : ParsePart(parts[q]).err,
        comps |-> [q \in 1..Len(parts) |-> ParsePart(parts[q]).c]]

\* Failures of a helper: "data" is a DataError the helper raises itself,
\* "exc" any other exception (TypeError, IndexError, JSONPathError); val is
\* the tree as the helper left it.
HelperErr(kind, data) == [err |-> kind, val |-> data]
HelperOk(data) == [err |-> "", val |-> data]

\* `while len(current) <= index: current.append(filler)`
RECURSIVE Pad(_, _, _)
Pad(kids, index, filler) ==
    IF Len(kids) <= index THEN Pad(Append(kids, Elem(filler)), index, filler) ELSE kids

\* An entry that assigns the fresh container without the membership test.
EnterKeyAlwaysFresh(data, loc, key, fresh) ==
    LET current == GetAt(data, loc)
    IN IF ~IsDict(current) THEN [err |-> TRUE, data |-> data, loc |-> loc]
       ELSE [err |-> FALSE, data |-> SetAt(data, loc, DictSet(current, key, fresh)),
             loc |-> Append(loc, IF HasKey(current, key) THEN KeyPos(current, key)
                                 ELSE Len(current.kids) + 1)]

\* `if key not in current: current[key] = fresh` then `current[key]`, with
\* current the value at loc.  Whatever is not a dict raises TypeError, at the
\* test, at the assignment or at the subscript.
EnterKey(data, loc, key, fresh) ==
    LET current == GetAt(data, loc)
    IN IF ~IsDict(current) THEN [err |-> TRUE, data |-> data, loc |-> loc]
       ELSE IF HasKey(current, key)
       THEN [err |-> FALSE, data |-> data, loc |-> Append(loc, KeyPos(current, key))]
       ELSE [err |-> FALSE, data |-> SetAt(data, loc, DictSet(current, key, fresh)),
             loc |-> Append(loc, Len(current.kids) + 1)]

\* Position of current[index] in a list of length n, 0 for IndexError.
ListPos(index, n) ==
    IF index >= 0 THEN (IF index < n THEN index + 1 ELSE 0)
    ELSE (IF 0 - index <= n THEN n + index + 1 ELSE 0)

\* The loop of _create_path over components[:-1] and the final assignment;
\* current is the value at loc, i the component reached.
RECURSIVE CreateWalk(_, _, _, _, _)
CreateWalk(data, loc, comps, i, value) ==
    LET c == comps[i]
        final == (i = Len(comps))
        e == IF c.is_array
             THEN (IF c.key # "" THEN EnterKey(data, loc, c.key, EmptyArr)
                   ELSE [err |-> FALSE, data |-> data, loc |-> loc])
             ELSE IF final THEN [err |-> FALSE, data |-> data, loc |-> loc]
             ELSE EnterKey(data, loc, c.key,
                           IF comps[i + 1].is_array /\ comps[i + 1].key = ""
                           THEN EmptyArr ELSE EmptyObj)
        current == GetAt(e.data, e.loc)
    IN IF e.err THEN HelperErr("exc", data)
       ELSE IF c.is_array
       THEN IF ~IsList(current) THEN HelperErr("data", e.data)
            ELSE LET padded == JArr(Pad(current.kids, c.index, IF final THEN JNull ELSE EmptyObj))
                     pos == ListPos(c.index, Len(padded.kids))
                 IN IF pos = 0 THEN HelperErr("exc", SetAt(e.data, e.loc, padded))
                    ELSE IF final
                    THEN HelperOk(SetAt(e.data, e.loc, ListSet(padded, pos, value)))
                    ELSE CreateWalk(SetAt(e.data, e.loc, padded), Append(e.loc, pos),
                                    comps, i + 1, value)
       ELSE IF final
       THEN (IF ~IsDict(current) THEN HelperErr("data", e.data)
             ELSE HelperOk(SetAt(e.data, e.loc, DictSet(current, c.key, value))))
       ELSE CreateWalk(e.data, e.loc, comps, i + 1, value)

\* _create_path(data, path, value)
CreatePath(data, path, value) ==
    LET rest == IF StartsWith(path, <<"$", ".">>) THEN Drop(path, 2)
                ELSE IF StartsWith(path, <<"$">>) THEN Drop(path, 1)
                ELSE path
        parsed == ParsePathComponents(rest)
    IN IF rest = <<>> THEN HelperErr("data", data)
       ELSE IF parsed.err THEN HelperErr("data", data)
       ELSE CreateWalk(data, <<>>, parsed.comps, 1, value)

\* _handle_wildcard_creation(data, path, value)
HandleWildcardCreation(data, path, value, nullMatch) ==
    LET parts == SplitOn(Drop(path, 2), <<"[", "*", "]", ".">>, <<>>)
        array_expr == Compile(<<"$", ".">> \o parts[1])
        array_matches == Find(array_expr.sels, data, nullMatch)
    IN IF StartsWith(path, <<"$", ".">>) /\ HasToks(path, <<"[", "*", "]">>) /\ Len(parts) = 2
       THEN IF ~array_expr.ok \/ array_matches.err THEN HelperErr("exc", data)
            ELSE HelperOk(UpdateEach(SItems(Concat(parts[2])), data, data,
                                     array_matches.locs, {}, value, nullMatch).val)
       ELSE HelperErr("data", data)

(***************************************************************************)
(* The content of the field (self.get(field_name)): None, a str, an        *)
(* already decoded dict or list, or some other Python object (an int).     *)
(***************************************************************************)
FNone == [py |-> "none", text |-> <<>>, val |-> JNull]
FText(toks) == [py |-> "str", text |-> toks, val |-> JNull]
FJson(v) == [py |-> "json", text |-> <<>>, val |-> v]
FOther == [py |-> "int", text |-> <<>>, val |-> JNull]

\* `not s.strip()`: nothing but whitespace.
Blank(toks) == \A q \in 1..Len(toks) : toks[q] = " "

\* The path argument: a str (its tokens) or some other object.
PathStr(toks) == [isStr |-> TRUE, toks |-> toks]
PathNotStr == [isStr |-> FALSE, toks |-> <<>>]

\* What a call did: how it ended ("ok", "ValidationError", "DataError"), the
\* number of frappe.log_error calls, the value returned and its shape (for an
\* error, kind tells which of the messages the exception carries),
\* whether db_set/set were called and with which text, and the tree the call
\* worked on as it left it (data), which is the field's own object when the
\* call did not copy it (shared).
Outcome(status, logs, ret, kind, wrote, text, shared, data) ==
    [status |-> status, logs |-> logs, ret |-> ret, kind |-> kind,
     wrote |-> wrote, text |-> text, shared |-> shared, data |-> data]
Raise(status, msg, logs, shared, data) == Outcome(status, logs, JNull, msg, FALSE, <<>>, shared, data)
Return(ret, kind, shared, data) == Outcome("ok", 0, ret, kind, FALSE, <<>>, shared, data)
\* A return of the tree without db_set and set.
ReturnUnsaved(data, shared) == Outcome("ok", 0, data, "document", FALSE, <<>>, shared, data)
Persist(data, shared) == Outcome("ok", 0, data, "document", TRUE, Dumps(data), shared, data)

\* A validation that does not trim the path.
ArgsValidNoTrim(path, fieldNameIsStr) == path.isStr /\ fieldNameIsStr
\* The input validation shared by the three methods.
ArgsValid(path, fieldNameIsStr) == path.isStr /\ ~Blank(path.toks) /\ fieldNameIsStr

\* `json_data = field_value`: the tree is the field's own dict or list.
SameObject(v) == [val |-> v, shared |-> TRUE]
\* `json_data = field_value` where the code copies.
CopyOmitted(v) == [val |-> v, shared |-> TRUE]
\* `json_data = json.loads(json.dumps(field_value))`: a copy of it.
CopyOf(v) == [val |-> Loads(Dumps(v)).val, shared |-> FALSE]

\* A resolve_path that returns a list for a single match too.
ResolvePathAlwaysList(fv, path, default, fieldNameIsStr, nullMatch) ==
    LET decoded == Loads(fv.text)
        obj == SameObject(fv.val)
        json_data == IF fv.py = "str" THEN decoded.val ELSE obj.val
        shared == fv.py = "json" /\ obj.shared
        expr == Compile(path.toks)
        matches == Find(expr.sels, json_data, nullMatch)
        values == MatchValues(json_data, matches.locs)
    IN IF ~ArgsValid(path, fieldNameIsStr) THEN Raise("ValidationError", "argument", 0, FALSE, JNull)
       ELSE IF fv.py = "none" THEN Return(default, "default", FALSE, JNull)
       ELSE IF fv.py = "str" /\ Blank(fv.text) THEN Return(default, "default", FALSE, JNull)
       ELSE IF fv.py = "str" /\ ~decoded.ok THEN Raise("DataError", "json", 1, FALSE, JNull)
       ELSE IF fv.py = "int" THEN Raise("ValidationError", "field type", 0, FALSE, JNull)
       ELSE IF ~expr.ok THEN Raise("DataError", "path", 1, shared, json_data)
       ELSE IF matches.err THEN Raise("DataError", "execution", 1, shared, json_data)
       ELSE IF matches.locs = <<>> THEN Return(default, "default", shared, json_data)
       ELSE Return(JArr([q \in 1..Len(values) |-> Elem(values[q])]), "list", shared, json_data)

\* A resolve_path that keeps the decoded tree as the field's value.
ResolvePathKeepsDecoded(fv, path, default, fieldNameIsStr, nullMatch) ==
    LET decoded == Loads(fv.text)
        json_data == IF fv.py = "str" THEN decoded.val ELSE fv.val
        expr == Compile(path.toks)
        matches == Find(expr.sels, json_data, nullMatch)
        values == MatchValues(json_data, matches.locs)
    IN IF ~ArgsValid(path, fieldNameIsStr) THEN Raise("ValidationError", "argument", 0, FALSE, JNull)
       ELSE IF fv.py = "none" THEN Return(default, "default", FALSE, JNull)
       ELSE IF fv.py = "str" /\ Blank(fv.text) THEN Return(default, "default", FALSE, JNull)
       ELSE IF fv.py = "str" /\ ~decoded.ok THEN Raise("DataError", "json", 1, FALSE, JNull)
       ELSE IF fv.py = "int" THEN Raise("ValidationError", "field type", 0, FALSE, JNull)
       ELSE IF ~expr.ok THEN Raise("DataError", "path", 1, TRUE, json_data)
       ELSE IF matches.err THEN Raise("DataError", "execution", 1, TRUE, json_data)
       ELSE IF matches.locs = <<>> THEN Return(default, "default", TRUE, json_data)
       ELSE IF Len(values) = 1 THEN Return(values[1], "single", TRUE, json_data)
       ELSE Return(JArr([q \in 1..Len(values) |-> Elem(values[q])]), "list", TRUE, json_data)

\* A resolve_path that compiles the path before it looks at the field.
ResolvePathCompileFirst(fv, path, default, fieldNameIsStr, nullMatch) ==
    LET decoded == Loads(fv.text)
        obj == SameObject(fv.val)
        json_data == IF fv.py = "str" THEN decoded.val ELSE obj.val
        shared == fv.py = "json" /\ obj.shared
        expr == Compile(path.toks)
        matches == Find(expr.sels, json_data, nullMatch)
        values == MatchValues(json_data, matches.locs)
    IN IF ~ArgsValid(path, fieldNameIsStr) THEN Raise("ValidationError", "argument", 0, FALSE, JNull)
       ELSE IF ~expr.ok THEN Raise("DataError", "path", 1, FALSE, JNull)
       ELSE IF fv.py = "none" THEN Return(default, "default", FALSE, JNull)
       ELSE IF fv.py = "str" /\ Blank(fv.text) THEN Return(default, "default", FALSE, JNull)
       ELSE IF fv.py = "str" /\ ~decoded.ok THEN Raise("DataError", "json", 1, FALSE, JNull)
       ELSE IF fv.py = "int" THEN Raise("ValidationError", "field type", 0, FALSE, JNull)
       ELSE IF matches.err THEN Raise("DataError", "execution", 1, shared, json_data)
       ELSE IF matches.locs = <<>> THEN Return(default, "default", shared, json_data)
       ELSE IF Len(values) = 1 THEN Return(values[1], "single", shared, json_data)
       ELSE Return(JArr([q \in 1..Len(values) |-> Elem(values[q])]), "list", shared, json_data)

\* resolve_path(path, default, field_name)
ResolvePath(fv, path, default, fieldNameIsStr, nullMatch) ==
    LET decoded == Loads(fv.text)
        obj == SameObject(fv.val)
        json_data == IF fv.py = "str" THEN decoded.val ELSE obj.val
        shared == fv.py = "json" /\ obj.shared
        expr == Compile(path.toks)
        matches == Find(expr.sels, json_data, nullMatch)
        values == MatchValues(json_data, matches.locs)
    IN IF ~ArgsValid(path, fieldNameIsStr) THEN Raise("ValidationError", "argument", 0, FALSE, JNull)
       ELSE IF fv.py = "none" THEN Return(default, "default", FALSE, JNull)
       ELSE IF fv.py = "str" /\ Blank(fv.text) THEN Return(default, "default", FALSE, JNull)
       ELSE IF fv.py = "str" /\ ~decoded.ok THEN Raise("DataError", "json", 1, FALSE, JNull)
       ELSE IF fv.py = "int" THEN Raise("ValidationError", "field type", 0, FALSE, JNull)
       ELSE IF ~expr.ok THEN Raise("DataError", "path", 1, shared, json_data)
       ELSE IF matches.err THEN Raise("DataError", "execution", 1, shared, json_data)
       ELSE IF matches.locs = <<>> THEN Return(default, "default", shared, json_data)
       ELSE IF Len(values) = 1 THEN Return(values[1], "single", shared, json_data)
       ELSE Return(JArr([q \in 1..Len(values) |-> Elem(values[q])]), "list", shared, json_data)

\* An update_path that tests the type of the field after compiling the path.
UpdatePathTypeCheckLate(fv, path, value, fieldNameIsStr, nullMatch) ==
    LET decoded == Loads(fv.text)
        obj == CopyOf(fv.val)
        json_data == IF fv.py = "none" \/ (fv.py = "str" /\ Blank(fv.text)) THEN EmptyObj
                     ELSE IF fv.py = "str" THEN decoded.val
                     ELSE obj.val
        shared == fv.py = "json" /\ obj.shared
        expr == Compile(path.toks)
        matches == Find(expr.sels, json_data, nullMatch)
        updated == Update(expr.sels, json_data, value, nullMatch)
        created == IF HasTok(path.toks, "*") \/ HasToks(path.toks, <<".", ".">>)
                   THEN HandleWildcardCreation(json_data, path.toks, value, nullMatch)
                   ELSE CreatePath(json_data, path.toks, value)
    IN IF ~ArgsValid(path, fieldNameIsStr) THEN Raise("ValidationError", "argument", 0, FALSE, JNull)
       ELSE IF fv.py = "str" /\ ~Blank(fv.text) /\ ~decoded.ok THEN Raise("DataError", "json", 1, FALSE, JNull)
       ELSE IF ~expr.ok THEN Raise("DataError", "path", 1, shared, json_data)
       ELSE IF fv.py = "int" THEN Raise("ValidationError", "field type", 0, FALSE, JNull)
       ELSE IF matches.err THEN Raise("DataError", "execution", 1, shared, json_data)
       ELSE IF matches.locs # <<>>
       THEN (IF updated.err THEN Raise("DataError", "execution", 1, shared, updated.val)
             ELSE Persist(updated.val, shared))
       ELSE IF created.err = "data" THEN Raise("DataError", "synthesis", 0, shared, created.val)
       ELSE IF created.err = "exc" THEN Raise("DataError", "execution", 1, shared, created.val)
       ELSE Persist(created.val, shared)

\* An update_path that decodes blank text instead of starting from {}.
UpdatePathBlankDecoded(fv, path, value, fieldNameIsStr, nullMatch) ==
    LET decoded == Loads(fv.text)
        obj == CopyOf(fv.val)
        json_data == IF fv.py = "none" THEN EmptyObj
                     ELSE IF fv.py = "str" THEN decoded.val
                     ELSE obj.val
        shared == fv.py = "json" /\ obj.shared
        expr == Compile(path.toks)
        matches == Find(expr.sels, json_data, nullMatch)
        updated == Update(expr.sels, json_data, value, nullMatch)
        created == IF HasTok(path.toks, "*") \/ HasToks(path.toks, <<".", ".">>)
                   THEN HandleWildcardCreation(json_data, path.toks, value, nullMatch)
                   ELSE CreatePath(json_data, path.toks, value)
    IN IF ~ArgsValid(path, fieldNameIsStr) THEN Raise("ValidationError", "argument", 0, FALSE, JNull)
       ELSE IF fv.py = "str" /\ ~decoded.ok THEN Raise("DataError", "json", 1, FALSE, JNull)
       ELSE IF fv.py = "int" THEN Raise("ValidationError", "field type", 0, FALSE, JNull)
       ELSE IF ~expr.ok THEN Raise("DataError", "path", 1, shared, json_data)
       ELSE IF matches.err THEN Raise("DataError", "execution", 1, shared, json_data)
       ELSE IF matches.locs # <<>>
       THEN (IF updated.err THEN Raise("DataError", "execution", 1, shared, updated.val)
             ELSE Persist(updated.val, shared))
       ELSE IF created.err = "data" THEN Raise("DataError", "synthesis", 0, shared, created.val)
       ELSE IF created.err = "exc" THEN Raise("DataError", "execution", 1, shared, created.val)
       ELSE Persist(created.val, shared)

\* update_path(path, value, field_name)
UpdatePath(fv, path, value, fieldNameIsStr, nullMatch) ==
    LET decoded == Loads(fv.text)
        obj == CopyOf(fv.val)
        json_data == IF fv.py = "none" \/ (fv.py = "str" /\ Blank(fv.text)) THEN EmptyObj
                     ELSE IF fv.py = "str" THEN decoded.val
                     ELSE obj.val
        shared == fv.py = "json" /\ obj.shared
        expr == Compile(path.toks)
        matches == Find(expr.sels, json_data, nullMatch)
        updated == Update(expr.sels, json_data, value, nullMatch)
        created == IF HasTok(path.toks, "*") \/ HasToks(path.toks, <<".", ".">>)
                   THEN HandleWildcardCreation(json_data, path.toks, value, nullMatch)
                   ELSE CreatePath(json_data, path.toks, value)
    IN IF ~ArgsValid(path, fieldNameIsStr) THEN Raise("ValidationError", "argument", 0, FALSE, JNull)
       ELSE IF fv.py = "str" /\ ~Blank(fv.text) /\ ~decoded.ok THEN Raise("DataError", "json", 1, FALSE, JNull)
       ELSE IF fv.py = "int" THEN Raise("ValidationError", "field type", 0, FALSE, JNull)
       ELSE IF ~expr.ok THEN Raise("DataError", "path", 1, shared, json_data)
       ELSE IF matches.err THEN Raise("DataError", "execution", 1, shared, json_data)
       ELSE IF matches.locs # <<>>
       THEN (IF updated.err THEN Raise("DataError", "execution", 1, shared, updated.val)
             ELSE Persist(updated.val, shared))
       ELSE IF created.err = "data" THEN Raise("DataError", "synthesis", 0, shared, created.val)
       ELSE IF created.err = "exc" THEN Raise("DataError", "execution", 1, shared, created.val)
       ELSE Persist(created.val, shared)

\* A delete_path without the return for no match: it cleans and persists.
DeletePathNoEarlyReturn(fv, path, fieldNameIsStr, nullMatch) ==
    LET decoded == Loads(fv.text)
        obj == CopyOf(fv.val)
        json_data == IF fv.py = "str" THEN decoded.val ELSE obj.val
        shared == fv.py = "json" /\ obj.shared
        expr == Compile(path.toks)
        matches == Find(expr.sels, json_data, nullMatch)
        updated == Update(expr.sels, json_data, JNull, nullMatch)
    IN IF ~ArgsValid(path, fieldNameIsStr) THEN Raise("ValidationError", "argument", 0, FALSE, JNull)
       ELSE IF fv.py = "none" \/ (fv.py = "str" /\ Blank(fv.text))
       THEN Return(EmptyObj, "document", FALSE, JNull)
       ELSE IF fv.py = "str" /\ ~decoded.ok THEN Raise("DataError", "json", 1, FALSE, JNull)
       ELSE IF fv.py = "int" THEN Raise("ValidationError", "field type", 0, FALSE, JNull)
       ELSE IF ~expr.ok THEN Raise("DataError", "path", 1, shared, json_data)
       ELSE IF matches.err THEN Raise("DataError", "execution", 1, shared, json_data)
       ELSE IF updated.err THEN Raise("DataError", "execution", 1, shared, updated.val)
       ELSE Persist(CleanNoneValues(updated.val), shared)

\* A delete_path that starts from {} on an absent or blank field and goes on.
DeletePathBlankAsEmptyObject(fv, path, fieldNameIsStr, nullMatch) ==
    LET decoded == Loads(fv.text)
        obj == CopyOf(fv.val)
        json_data == IF fv.py = "none" \/ (fv.py = "str" /\ Blank(fv.text)) THEN EmptyObj
                     ELSE IF fv.py = "str" THEN decoded.val ELSE obj.val
        shared == fv.py = "json" /\ obj.shared
        expr == Compile(path.toks)
        matches == Find(expr.sels, json_data, nullMatch)
        updated == Update(expr.sels, json_data, JNull, nullMatch)
    IN IF ~ArgsValid(path, fieldNameIsStr) THEN Raise("ValidationError", "argument", 0, FALSE, JNull)
       ELSE IF fv.py = "str" /\ ~Blank(fv.text) /\ ~decoded.ok THEN Raise("DataError", "json", 1, FALSE, JNull)
       ELSE IF fv.py = "int" THEN Raise("ValidationError", "field type", 0, FALSE, JNull)
       ELSE IF ~expr.ok THEN Raise("DataError", "path", 1, shared, json_data)
       ELSE IF matches.err THEN Raise("DataError", "execution", 1, shared, json_data)
       ELSE IF matches.locs = <<>> THEN Return(json_data, "document", shared, json_data)
       ELSE IF updated.err THEN Raise("DataError", "execution", 1, shared, updated.val)
       ELSE Persist(CleanNoneValues(updated.val), shared)

\* delete_path(path, field_name)
DeletePath(fv, path, fieldNameIsStr, nullMatch) ==
    LET decoded == Loads(fv.text)
        obj == CopyOf(fv.val)
        json_data == IF fv.py = "str" THEN decoded.val ELSE obj.val
        shared == fv.py = "json" /\ obj.shared
        expr == Compile(path.toks)
        matches == Find(expr.sels, json_data, nullMatch)
        updated == Update(expr.sels, json_data, JNull, nullMatch)
    IN IF ~ArgsValid(path, fieldNameIsStr) THEN Raise("ValidationError", "argument", 0, FALSE, JNull)
       ELSE IF fv.py = "none" \/ (fv.py = "str" /\ Blank(fv.text))
       THEN Return(EmptyObj, "document", FALSE, JNull)
       ELSE IF fv.py = "str" /\ ~decoded.ok THEN Raise("DataError", "json", 1, FALSE, JNull)
       ELSE IF fv.py = "int" THEN Raise("ValidationError", "field type", 0, FALSE, JNull)
       ELSE IF ~expr.ok THEN Raise("DataError", "path", 1, shared, json_data)
       ELSE IF matches.err THEN Raise("DataError", "execution", 1, shared, json_data)
       ELSE IF matches.locs = <<>> THEN Return(json_data, "document", shared, json_data)
       ELSE IF updated.err THEN Raise("DataError", "execution", 1, shared, updated.val)
       ELSE Persist(CleanNoneValues(updated.val), shared)

(***************************************************************************)
(* TemplateDocProxy (utils.py): what a webhook template reaches of a      *)
(* document.                                                               *)
(***************************************************************************)

\* The keys of doc_dict, the methods of the document, its other attributes,
\* and a name the document does not have.
DictKeys == {"name", "json_payload"}
Whitelisted == {"resolve_path", "update_path", "delete_path"}
GuestMethods == {}
Methods == Whitelisted \cup {"save", "db_set"}
OtherAttrs == {"flags"}
AttrNames == DictKeys \cup Methods \cup OtherAttrs \cup {"nope"}

\* What a run of a document method does: it returns, or it raises one of
\* frappe's PermissionError, ValidationError, DataError, or an OSError or some
\* other Exception.
Raises == {"PermissionError", "ValidationError", "DataError", "OSError", "Exception"}
Behaviours == {"returns"} \cup Raises

\* A call observed on the document: the whitelist check or run_method.
Event(ev, name, ok) == [ev |-> ev, name |-> name, ok |-> ok]

\* frappe.is_whitelisted(method): throws PermissionError when the method is not
\* whitelisted, or when the session user is Guest and the method is not a
\* guest method.
ValidateWhitelisted(name, guest) ==
    IF name \notin Whitelisted \/ (guest /\ name \notin GuestMethods)
    THEN [raised |-> "PermissionError", events |-> <<Event("check", name, FALSE)>>]
    ELSE [raised |-> "", events |-> <<Event("check", name, TRUE)>>]

\* self._doc.run_method(name, *args, **kwargs)
RunMethod(name, behaviour) ==
    [raised |-> IF behaviour = "returns" THEN "" ELSE behaviour,
     events |-> <<Event("run", name, behaviour = "returns")>>]

WrapperResult(status, events) == [status |-> status, events |-> events]

\* A wrapper that runs the method and checks the whitelist afterwards.
MethodWrapperRunFirst(name, behaviour, guest) ==
    LET check == ValidateWhitelisted(name, guest)
        run == RunMethod(name, behaviour)
        raised == IF run.raised # "" THEN run.raised ELSE check.raised
        events == IF run.raised # "" THEN run.events ELSE run.events \o check.events
    IN IF raised = "" THEN WrapperResult("ok", events)
       ELSE IF raised = "PermissionError" THEN WrapperResult("PermissionError", events)
       ELSE WrapperResult("DataError", events)

\* A wrapper that lets every exception through as it is.
MethodWrapperReraises(name, behaviour, guest) ==
    LET check == ValidateWhitelisted(name, guest)
        run == RunMethod(name, behaviour)
        raised == IF check.raised # "" THEN check.raised ELSE run.raised
        events == IF check.raised # "" THEN check.events ELSE check.events \o run.events
    IN IF raised = "" THEN WrapperResult("ok", events)
       ELSE WrapperResult(raised, events)

\* _method_wrapper(*args, **kwargs): the check, then run_method; PermissionError
\* is raised again, any other Exception becomes DataError.
MethodWrapper(name, behaviour, guest) ==
    LET check == ValidateWhitelisted(name, guest)
        run == RunMethod(name, behaviour)
        raised == IF check.raised # "" THEN check.raised ELSE run.raised
        events == IF check.raised # "" THEN check.events ELSE check.events \o run.events
    IN IF raised = "" THEN WrapperResult("ok", events)
       ELSE IF raised = "PermissionError" THEN WrapperResult("PermissionError", events)
       ELSE WrapperResult("DataError", events)

\* TemplateDocProxy.__getattr__(name): a key of the dict gives its value, a
\* callable of the document gives the wrapper, another attribute of the
\* document gives the attribute, anything else raises AttributeError.
Getattr(name) ==
    IF name \in DictKeys THEN "field"
    ELSE IF name \in Methods THEN "wrapper"
    ELSE IF name \in OtherAttrs THEN "attribute"
    ELSE "AttributeError"

(***************************************************************************)
(* The state machine: one document with its JSON field, the three          *)
(* whitelisted methods called in any order.                                *)
(***************************************************************************)
MaxSteps == 2
\* The number of calls on the document a template makes through the proxy.
MaxEvents == 4

Arr(vals) == JArr([q \in 1..Len(vals) |-> Elem(vals[q])])
Obj1(k, v) == JObj(<<Member(k, v)>>)
Obj2(k1, v1, k2, v2) == JObj(<<Member(k1, v1), Member(k2, v2)>>)

\* Documents the field may hold when the record is loaded.
InitDocs ==
    { EmptyObj,
      Obj2("a", JNum(1), "b", JNum(2)),
      Obj2("a", JNull, "b", JNum(1)),
      Obj1("a", Obj1("b", JNum(1))),
      Obj1("a", JStr("s")),
      Obj1("arr", Arr(<<JNum(1), JNum(2), JNum(3)>>)),
      Obj1("arr", Arr(<<JNum(1), JNull, JNum(3)>>)),
      Obj1("arr", Arr(<<Obj1("id", JNum(1)), Obj1("id", JNum(2))>>)),
      Obj1("arr", Arr(<<Obj2("id", JNum(1), "tag", JNull), Obj2("id", JNum(1), "tag", JStr("t"))>>)),
      Obj1("arr", Arr(<<Obj1("tag", JStr("t")), JNum(1)>>)),
      Obj2("id", Obj1("id", JNum(1)), "b", JNum(2)),
      Obj1("arr", Obj1("k", Obj1("id", JNum(1)))),
      Arr(<<JNum(1), JNum(2)>>) }

\* Text that json.loads rejects.
MalformedText == <<"{", "\"a\"", ":">>

InitFields ==
    {FNone, FText(<<>>), FText(<<" ">>), FText(MalformedText), FOther}
    \cup {FText(Dumps(d)) : d \in InitDocs}
    \cup {FJson(d) : d \in {Obj2("a", JNum(1), "b", JNum(2)),
                            Obj1("arr", Arr(<<Obj1("tag", JStr("t")), JNum(1)>>))}}

Paths ==
    { <<"$">>,
      <<"$", ".", "a">>,
      <<"$", ".", "a", ".", "b">>,
      <<"$", ".", "x", ".", "y">>,
      <<"$", ".", "arr", "[", "0", "]">>,
      <<"$", ".", "arr", "[", "-1", "]">>,
      <<"$", ".", "arr", "[", "3", "]">>,
      <<"$", ".", "arr", "[", "*", "]">>,
      <<"$", ".", "arr", "[", "0", ":", "2", "]">>,
      <<"$", ".", "arr", "[", "?", "(", "@", ".", "id", "==", "1", ")", "]">>,
      <<"$", ".", "arr", "[", "*", "]", ".", "tag">>,
      <<"$", ".", "arr", "[", "*", "]", ".", "b", ".", "c">>,
      <<"$", ".", "arr", "[", "-1", "]", ".", "tag">>,
      <<"$", ".", "arr", "[", "3", "]", ".", "tag">>,
      <<"$", ".", "a", ".", "c">>,
      <<"$", ".", "a", ".", "b", "[", "0", "]", ".", "c">>,
      <<"$", ".", "x", "[", "0", "]", "[", "1", "]">>,
      <<"$", ".", ".", "id">>,
      <<"$", ".", "arr", "[">>,
      <<" ">> }

\* The argument lists tried: every path as a str with a str field name, and
\* the two invalid argument types.
Calls ==
    {[path |-> PathStr(p), fieldNameIsStr |-> TRUE] : p \in Paths}
    \cup {[path |-> PathNotStr, fieldNameIsStr |-> TRUE],
          [path |-> PathStr(<<"$", ".", "a">>), fieldNameIsStr |-> FALSE]}

Values == {JNum(5), JNull, Obj1("k", JNum(1))}
Defaults == {JNull, JStr("s")}

VARIABLES
    field,      \* the in-memory value of the field (self.get / self.set)
    db,         \* the persisted value of the field (self.db_set)
    dbWrites,   \* number of db_set calls so far
    logCount,   \* number of frappe.log_error calls so far
    nullMatch,  \* whether Fields.find of the installed jsonpath_ng matches None members
    steps,      \* number of calls so far
    last,       \* the last call: method, arguments, outcome, field and db before it
    isGuest,    \* whether the session user is Guest (frappe.session)
    held,       \* the methods whose wrapper the template holds
    events,     \* the whitelist checks and run_method calls made so far
    plast       \* the last access through the proxy and its result

vars == <<field, db, dbWrites, logCount, nullMatch, steps, last, isGuest, held, events, plast>>
recordVars == <<field, db, dbWrites, logCount, nullMatch, steps, last>>
proxyVars == <<isGuest, held, events, plast>>

NoCall ==
    [op |-> "none", path |-> PathNotStr, fieldNameIsStr |-> TRUE, value |-> JNull,
     out |-> Raise("none", "none", 0, FALSE, JNull), preField |-> FNone, preDb |-> FNone,
     preWrites |-> 0, preLogs |-> 0]

Call(op, c, value, out) ==
    [op |-> op, path |-> c.path, fieldNameIsStr |-> c.fieldNameIsStr, value |-> value,
     out |-> out, preField |-> field, preDb |-> db, preWrites |-> dbWrites,
     preLogs |-> logCount]

\* No access through the proxy yet.
NoAccess ==
    [op |-> "none", name |-> "", result |-> "", behaviour |-> "", preEvents |-> <<>>]

Access(op, name, result, behaviour) ==
    [op |-> op, name |-> name, result |-> result, behaviour |-> behaviour,
     preEvents |-> events]

NoProxy ==
    /\ isGuest = FALSE
    /\ held = {}
    /\ events = <<>>
    /\ plast = NoAccess

Init ==
    /\ NoProxy
    /\ field \in InitFields
    /\ db = field
    /\ dbWrites = 0
    /\ logCount = 0
    /\ nullMatch \in BOOLEAN
    /\ steps = 0
    /\ last = NoCall

\* What every call does with its outcome: log, and on success of a mutation
\* db_set(field_name, formatted_json) followed by set(field_name, formatted_json).
\* A call that worked on the field's own object leaves it as the call left it.
Apply(op, c, value, out) ==
    /\ steps < MaxSteps
    /\ steps' = steps + 1
    /\ logCount' = logCount + out.logs
    /\ field' = IF out.wrote THEN FText(out.text)
                ELSE IF out.shared THEN FJson(out.data)
                ELSE field
    /\ db' = IF out.wrote THEN FText(out.text) ELSE db
    /\ dbWrites' = IF out.wrote THEN dbWrites + 1 ELSE dbWrites
    /\ last' = Call(op, c, value, out)
    /\ UNCHANGED nullMatch
    /\ UNCHANGED proxyVars

Resolve ==
    \E c \in Calls, d \in Defaults :
        Apply("resolve", c, d, ResolvePath(field, c.path, d, c.fieldNameIsStr, nullMatch))

UpdateOp ==
    \E c \in Calls, v \in Values :
        Apply("update", c, v, UpdatePath(field, c.path, v, c.fieldNameIsStr, nullMatch))

Delete ==
    \E c \in Calls :
        Apply("delete", c, JNull, DeletePath(field, c.path, c.fieldNameIsStr, nullMatch))

Next == Resolve \/ UpdateOp \/ Delete

Spec == Init /\ [][Next]_vars

\* A template rendering with a TemplateDocProxy over a record.
ProxyInit ==
    /\ field = FNone /\ db = FNone /\ dbWrites = 0 /\ logCount = 0
    /\ nullMatch = FALSE /\ steps = 0 /\ last = NoCall
    /\ isGuest \in BOOLEAN
    /\ held = {}
    /\ events = <<>>
    /\ plast = NoAccess

\* The template reads an attribute of the proxy.
ReadAttribute ==
    \E name \in AttrNames :
        /\ held' = IF Getattr(name) = "wrapper" THEN held \cup {name} ELSE held
        /\ plast' = Access("getattr", name, Getattr(name), "")
        /\ UNCHANGED <<isGuest, events>>
        /\ UNCHANGED recordVars

\* The template calls a wrapper it holds.
CallWrapper ==
    \E name \in held, behaviour \in Behaviours :
        LET out == MethodWrapper(name, behaviour, isGuest)
        IN /\ Len(events) + 2 <= MaxEvents
           /\ events' = events \o out.events
           /\ plast' = Access("call", name, out.status, behaviour)
           /\ UNCHANGED <<isGuest, held>>
           /\ UNCHANGED recordVars

\* The template calls as_dict(): a copy of the dict.
AsDict ==
    /\ plast' = Access("as_dict", "", "dict", "")
    /\ UNCHANGED <<isGuest, held, events>>
    /\ UNCHANGED recordVars

ProxyNext == ReadAttribute \/ CallWrapper \/ AsDict

ProxySpec == ProxyInit /\ [][ProxyNext]_vars

(***************************************************************************)
(* Properties.  They speak about the last call (last) and about what the   *)
(* methods would return if called now.                                     *)
(***************************************************************************)
\* The document a field value decodes to.
DocOf(fv) == IF fv.py = "str" THEN Loads(fv.text).val ELSE fv.val
HoldsDoc(fv) == fv.py = "json" \/ (fv.py = "str" /\ ~Blank(fv.text) /\ Loads(fv.text).ok)

Succeeded(op) == last.op = op /\ last.out.status = "ok"
Failed == last.op # "none" /\ last.out.status # "ok"
LastSels == Compile(last.path.toks).sels
\* The matches the last call's path had in the document before the call.
PreMatches == Find(LastSels, DocOf(last.preField), nullMatch)
\* The field held a document before the last call and the path matched in it.
Matched == HoldsDoc(last.preField) /\ ~PreMatches.err /\ Len(PreMatches.locs) > 0
\* resolve_path / delete_path with the last call's path, called now.
ResolveNow(d) == ResolvePath(field, last.path, d, TRUE, nullMatch)
DeleteNow == DeletePath(field, last.path, TRUE, nullMatch)

Copies(n, v) == JArr([q \in 1..n |-> Elem(v)])
HasSel(sels, kinds) == \E q \in 1..Len(sels) : sels[q].sel \in kinds
\* A `[*]`: the slice without bounds.
IsStar(sel) == sel.sel = "slice" /\ ~sel.hasI /\ ~sel.hasJ
\* The path selects some array element by position (index or bounded slice).
Positional(sels) == \E q \in 1..Len(sels) : sels[q].sel = "index" \/ (sels[q].sel = "slice" /\ ~IsStar(sels[q]))

\* C1: update/read consistency: after a successful update_path(p, v) with a
\* path p without `*` and without `..`, resolve_path(p) returns v.
C1_UpdateReadConsistency ==
    (Succeeded("update") /\ ~HasTok(last.path.toks, "*") /\ ~HasToks(last.path.toks, <<".", ".">>))
        => (ResolveNow(JNull).status = "ok" /\ ResolveNow(JNull).ret = last.value)

\* No match lies inside another match.
Disjoint(locs) ==
    \A q, r \in 1..Len(locs) : q # r => ~IsPrefix(locs[q], locs[r])
\* The path addresses no object member that holds null: counting such
\* members as matches or not makes no difference.
NoNullMember(sels, doc) == Find(sels, doc, TRUE).locs = Find(sels, doc, FALSE).locs
\* A final `[*]` or slice is applied to arrays only.
FinalSliceOnArrays(sels, doc) ==
    (sels # <<>> /\ Last(sels).sel = "slice")
        => LET parents == Find(Front(sels), doc, nullMatch).locs
           IN \A q \in 1..Len(parents) : IsList(GetAt(doc, parents[q]))

\* What resolve_path returns for n matches that all hold v.
Broadcast(n, v) == IF n = 1 THEN v ELSE Copies(n, v)

C2_Pre ==
    /\ Succeeded("update")
    /\ Len(PreMatches.locs) > 0
    /\ LastSels # <<>>
    /\ ~HasSel(LastSels, {"filter"})
    /\ ~IsNone(last.value)
    /\ Disjoint(PreMatches.locs)
    /\ NoNullMember(LastSels, DocOf(last.preField))
    /\ FinalSliceOnArrays(LastSels, DocOf(last.preField))

SecondDeleteSame ==
    /\ DeleteNow.status = "ok"
    /\ DeleteNow.ret = last.out.ret
    /\ DeleteNow.wrote => DeleteNow.text = field.text

FinalStarOrFilterOnArrays(sels, doc) ==
    (sels # <<>> /\ Last(sels).sel \in {"slice", "filter"})
        => LET parents == Find(Front(sels), doc, nullMatch).locs
           IN \A q \in 1..Len(parents) : IsList(GetAt(doc, parents[q]))

C4_Pre ==
    /\ Succeeded("delete")
    /\ LastSels # <<>>
    /\ ~Positional(LastSels)
    /\ FinalStarOrFilterOnArrays(LastSels, DocOf(last.preField))

C5_CompactionLength ==
    LET pre == DocOf(last.preField)
        post == last.out.ret
        arr == pre.kids[KeyPos(pre, "arr")].v
    IN (/\ Succeeded("delete")
        /\ Len(LastSels) = 2 /\ LastSels[1] = SField("arr") /\ LastSels[2].sel = "index"
        /\ HoldsDoc(last.preField) /\ IsDict(pre) /\ HasKey(pre, "arr") /\ IsList(arr)
        /\ ListPos(LastSels[2].i, Len(arr.kids)) # 0)
       => (/\ IsDict(post) /\ HasKey(post, "arr")
           /\ IsList(post.kids[KeyPos(post, "arr")].v)
           /\ Len(post.kids[KeyPos(post, "arr")].v.kids) = Len(arr.kids) - 1)

\* The document without the members and elements at the given locations and
\* with everything else as it was: the locations are marked with a marker
\* that is no JSON value, and the marked kids are dropped.
Marker == [t |-> "marker", n |-> 0, s |-> "", kids |-> <<>>]
RECURSIVE MarkAll(_, _), DropMarked(_), DropMarkedKids(_)
MarkAll(doc, locs) ==
    IF locs = <<>> THEN doc
    ELSE IF Head(locs) = <<>> \/ \E q \in 2..Len(locs) : IsPrefix(locs[q], Head(locs))
    THEN MarkAll(doc, Tail(locs))
    ELSE MarkAll(SetAt(doc, Head(locs), Marker), Tail(locs))
DropMarked(v) == IF IsContainer(v) THEN [v EXCEPT !.kids = DropMarkedKids(v.kids)] ELSE v
DropMarkedKids(kids) ==
    IF kids = <<>> THEN <<>>
    ELSE IF Head(kids).v = Marker THEN DropMarkedKids(Tail(kids))
    ELSE <<[Head(kids) EXCEPT !.v = DropMarked(Head(kids).v)]>> \o DropMarkedKids(Tail(kids))
\* Matches in an order in which no match follows one that lies inside it.
RECURSIVE Reverse(_)
Reverse(q) == IF q = <<>> THEN <<>> ELSE Append(Reverse(Tail(q)), Head(q))
Without(doc, locs) == DropMarked(MarkAll(doc, Reverse(locs)))

\* C6: delete_path removes only what the path matched: every unmatched
\* member or element, also one that held null before the call, is still
\* there with its value.
C6_DeleteRemovesOnlyMatched ==
    (Succeeded("delete") /\ Matched)
        => last.out.ret = Without(DocOf(last.preField), PreMatches.locs)

\* C7: a call that fails leaves the in-memory and the persisted value of the
\* field as they were, also when the field held a decoded object or array.
C7_FailureAtomicity ==
    Failed => (field = last.preField /\ db = last.preDb)

\* An update on a decoded object failed after it had changed its working tree.
C7_Witness ==
    /\ Failed /\ last.op = "update" /\ last.out.status = "DataError"
    /\ last.preField.py = "json"
    /\ last.out.data # last.preField.val

\* C8: the in-memory and the persisted value of the field are always equal,
\* and after a successful update_path, or a delete_path that matched, both
\* are the text encoding of the document the call returned.
C8_PersistedTracksReturned ==
    /\ field = db
    /\ ((Succeeded("update") \/ (Succeeded("delete") /\ Matched))
            => (field = FText(Dumps(last.out.ret)) /\ db = FText(Dumps(last.out.ret))))

\* A delete that matched followed an update: both were persisted.
C8_Witness ==
    /\ Succeeded("delete") /\ Matched /\ dbWrites = 2
    /\ DocOf(field) # DocOf(last.preField)

\* C9: resolve_path returns the default when the field is absent or blank or
\* the path matches nothing, the matched value when one location matches,
\* and the list of the matched values in match order otherwise.
C9_ResolveShape ==
    LET f == last.preField
        doc == DocOf(f)
        m == PreMatches.locs
        empty == f.py = "none" \/ (f.py = "str" /\ Blank(f.text))
    IN /\ (last.op = "resolve" /\ ArgsValid(last.path, last.fieldNameIsStr) /\ empty)
            => (last.out.status = "ok" /\ last.out.ret = last.value)
       /\ (Succeeded("resolve") /\ ~empty)
            => /\ Len(m) = 0 => last.out.ret = last.value
               /\ Len(m) = 1 => last.out.ret = GetAt(doc, m[1])
               /\ Len(m) > 1 => /\ IsList(last.out.ret)
                                /\ Len(last.out.ret.kids) = Len(m)
                                /\ \A q \in 1..Len(m) : last.out.ret.kids[q].v = GetAt(doc, m[q])

\* A resolve returned several different values, in document order.
C9_Witness ==
    /\ Succeeded("resolve") /\ last.out.kind = "list"
    /\ Len(PreMatches.locs) = 3
    /\ last.out.ret.kids[1].v # last.out.ret.kids[3].v

\* C10: resolve_path is read-only: whether it returns or fails, the
\* in-memory and the persisted value of the field are unchanged and db_set is
\* not called.
C10_ResolveReadOnly ==
    last.op = "resolve"
        => (field = last.preField /\ db = last.preDb /\ dbWrites = last.preWrites)

\* A resolve worked on the field's own decoded object and returned matches.
C10_Witness ==
    /\ Succeeded("resolve") /\ last.preField.py = "json" /\ last.out.shared
    /\ last.out.kind = "single"

\* The last call had valid arguments, the field held a document, the path
\* compiled and its evaluation matched nothing.
ZeroMatch ==
    /\ ArgsValid(last.path, last.fieldNameIsStr)
    /\ HoldsDoc(last.preField)
    /\ Compile(last.path.toks).ok
    /\ ~PreMatches.err /\ PreMatches.locs = <<>>

\* The last call left the field, its persisted value and the number of
\* db_set calls as they were.
Untouched == field = last.preField /\ db = last.preDb /\ dbWrites = last.preWrites

\* C11: delete_path with a path that matches nothing succeeds, returns a
\* document equal to the decoded field content, and leaves the in-memory and
\* the persisted value of the field unchanged.
C11_DeleteNoMatchNoOp ==
    (last.op = "delete" /\ ZeroMatch)
        => (last.out.status = "ok" /\ last.out.ret = DocOf(last.preField) /\ Untouched)

\* A delete matched nothing in a document that holds a null member, which a
\* clean-up would have removed.
C11_Witness ==
    /\ Succeeded("delete") /\ ZeroMatch
    /\ CleanNoneValues(DocOf(last.preField)) # DocOf(last.preField)
    /\ last.out.ret = DocOf(last.preField)

C13_DataErrorLoggedOnce ==
    (last.op # "none" /\ last.out.status = "DataError") => logCount = last.preLogs + 1

\* The document update_path starts from: an absent or blank field counts as
\* the empty object.
EmptyField(fv) == fv.py = "none" \/ (fv.py = "str" /\ Blank(fv.text))
PreDocU == IF EmptyField(last.preField) THEN EmptyObj ELSE DocOf(last.preField)
PreMatchesU == Find(LastSels, PreDocU, nullMatch)
\* The last call was an update_path with valid arguments whose path compiled
\* and matched nothing in that document.
ZeroMatchUpdate ==
    /\ last.op = "update"
    /\ ArgsValid(last.path, last.fieldNameIsStr)
    /\ EmptyField(last.preField) \/ HoldsDoc(last.preField)
    /\ Compile(last.path.toks).ok
    /\ ~PreMatchesU.err /\ PreMatchesU.locs = <<>>

NegIndex(sels) == \E q \in 1..Len(sels) : sels[q].sel = "index" /\ sels[q].i < 0

\* C14: an update_path whose path matches nothing and contains a negative
\* array index fails and changes nothing, whatever the length of the array.
C14_NegativeIndexSynthesisRejected ==
    (ZeroMatchUpdate /\ NegIndex(LastSels))
        => (last.out.status # "ok" /\ Untouched)

\* The number of nulls in a value.
RECURSIVE NullCount(_), NullCountKids(_)
NullCount(v) == IF IsNone(v) THEN 1 ELSE IF IsContainer(v) THEN NullCountKids(v.kids) ELSE 0
NullCountKids(kids) ==
    IF kids = <<>> THEN 0 ELSE NullCount(Head(kids).v) + NullCountKids(Tail(kids))

\* C15: when a zero-match update_path synthesizes index i in an array of
\* length n <= i, at an intermediate or at the final step, the slots added at
\* n..i-1 hold empty objects: the resulting document contains no null that
\* the caller did not supply.
C15_IndexPadding ==
    (ZeroMatchUpdate /\ Succeeded("update") /\ HasSel(LastSels, {"index"}))
        => NullCount(last.out.ret) <= NullCount(PreDocU) + NullCount(last.value)

\* The path is made of field selectors only.
FieldsOnly(sels) == sels # <<>> /\ \A q \in 1..Len(sels) : sels[q].sel = "field"
FieldNames(sels) == [q \in 1..Len(sels) |-> sels[q].name]

\* The object with the chain of members names below it, the last one holding v.
RECURSIVE Nest(_, _)
Nest(names, v) == IF names = <<>> THEN v ELSE JObj(<<Member(Head(names), Nest(Tail(names), v))>>)
\* doc with the members missing along names added and the last one set to v;
\* everything else as it is.
RECURSIVE AddMembers(_, _, _)
AddMembers(doc, names, v) ==
    IF Len(names) = 1 THEN DictSet(doc, Head(names), v)
    ELSE IF HasKey(doc, Head(names))
    THEN DictSet(doc, Head(names),
                 AddMembers(doc.kids[KeyPos(doc, Head(names))].v, Tail(names), v))
    ELSE DictSet(doc, Head(names), Nest(Tail(names), v))

StarFieldShape ==
    /\ Len(LastSels) = 3
    /\ LastSels[1].sel = "field" /\ IsStar(LastSels[2]) /\ LastSels[3].sel = "field"
    /\ IsDict(PreDocU) /\ HasKey(PreDocU, LastSels[1].name)
    /\ IsList(PreDocU.kids[KeyPos(PreDocU, LastSels[1].name)].v)
\* The array A before the last call, and in the returned document.
PreA == PreDocU.kids[KeyPos(PreDocU, LastSels[1].name)].v
PostA == last.out.ret.kids[KeyPos(last.out.ret, LastSels[1].name)].v

\* C17: a zero-match update_path with path `$.A[*].f` where A is an array sets
\* member f to the value on every element of A that is an object, leaves
\* every other element unchanged without error and keeps the array's length.
C17_ArrayWildcardCreation ==
    (ZeroMatchUpdate /\ StarFieldShape)
        => /\ last.out.status = "ok"
           /\ last.out.ret =
                DictSet(PreDocU, LastSels[1].name,
                        JArr([p \in 1..Len(PreA.kids) |->
                                IF IsDict(PreA.kids[p].v)
                                THEN Elem(DictSet(PreA.kids[p].v, LastSels[3].name, last.value))
                                ELSE PreA.kids[p]]))

\* The array held objects, which got the member, and an element that is no
\* object, which was passed over.
C17_Witness ==
    /\ ZeroMatchUpdate /\ StarFieldShape /\ Succeeded("update")
    /\ \E p \in 1..Len(PreA.kids) : ~IsDict(PreA.kids[p].v)
    /\ \E p \in 1..Len(PreA.kids) :
          IsDict(PreA.kids[p].v) /\ HasKey(PostA.kids[p].v, LastSels[3].name)

\* The path is an array path of fields and indices, one `[*]` and one field.
SupportedWildcardShape(sels) ==
    /\ Len(sels) >= 3
    /\ Last(sels).sel = "field"
    /\ IsStar(sels[Len(sels) - 1])
    /\ \A q \in 1..(Len(sels) - 2) : sels[q].sel \in {"field", "index"}

\* C18: a zero-match update_path whose path contains a wildcard or a
\* recursive descent and is not of the shape array path, one `[*]`, one
\* field, fails and changes nothing.
C18_UnsupportedPatternRejected ==
    (/\ ZeroMatchUpdate
     /\ HasTok(last.path.toks, "*") \/ HasToks(last.path.toks, <<".", ".">>)
     /\ ~SupportedWildcardShape(LastSels))
        => (last.out.status # "ok" /\ Untouched)

\* Every element of the array A is an object / has member f / lacks it.
AllObjects(arr) == \A p \in 1..Len(arr.kids) : IsDict(arr.kids[p].v)
AllHave(arr, f) == \A p \in 1..Len(arr.kids) : HasKey(arr.kids[p].v, f)
NoneHas(arr, f) == \A p \in 1..Len(arr.kids) : ~HasKey(arr.kids[p].v, f)
\* Every element of the array is an object whose member f holds v.
AllSet(arr, f, v) ==
    \A p \in 1..Len(arr.kids) :
        /\ IsDict(arr.kids[p].v) /\ HasKey(arr.kids[p].v, f)
        /\ arr.kids[p].v.kids[KeyPos(arr.kids[p].v, f)].v = v

\* C19 as stated: after a successful update_path("$.A[*].f", v) on a document
\* where A is an array of objects, every element of A has member f equal to
\* v, whether or not some elements had f before the call.
C19_EveryElementSetAsStated ==
    (Succeeded("update") /\ StarFieldShape /\ AllObjects(PreA))
        => AllSet(PostA, LastSels[3].name, last.value)

\* C19 amended: after a successful update_path("$.A[*].f", v) on a document
\* where A is an array of objects of which either all or none had f before
\* the call, every element of A has member f equal to v.
C19_EveryElementSet ==
    (/\ Succeeded("update") /\ StarFieldShape /\ AllObjects(PreA)
     /\ AllHave(PreA, LastSels[3].name) \/ NoneHas(PreA, LastSels[3].name))
        => AllSet(PostA, LastSels[3].name, last.value)

\* Every object of the array had the member, with different values, and the
\* update overwrote them all.
C19_Witness ==
    /\ Succeeded("update") /\ StarFieldShape /\ AllObjects(PreA)
    /\ Len(PreA.kids) >= 2 /\ AllHave(PreA, LastSels[3].name)
    /\ ~AllSet(PreA, LastSels[3].name, last.value)
    /\ AllSet(PostA, LastSels[3].name, last.value)

\* update_path with the last call's path and value, called now.
UpdateNow == UpdatePath(field, last.path, last.value, TRUE, nullMatch)
\* A second update_path(p, v), called now, succeeds and leaves the document
\* of the first.
SecondUpdateSame ==
    /\ UpdateNow.status = "ok"
    /\ UpdateNow.ret = last.out.ret
    /\ UpdateNow.text = field.text

\* C20: whenever update_path(p, v) succeeds, for any document, path and
\* value, a second update_path(p, v) succeeds too and leaves the same
\* document as the first.
C20_UpdateIdempotent == Succeeded("update") => SecondUpdateSame

\* post is pre with some members and elements removed, at any depth, and the
\* rest in the order they had: the kids of post are, in order, kids of pre
\* (members under the same name) that stand in the same relation.
RECURSIVE Survives(_, _), SurviveKids(_, _)
Survives(post, pre) ==
    IF IsContainer(pre) THEN post.t = pre.t /\ SurviveKids(post.kids, pre.kids)
    ELSE post = pre
SurviveKids(post, pre) ==
    IF post = <<>> THEN TRUE
    ELSE IF pre = <<>> THEN FALSE
    ELSE \/ /\ Head(post).k = Head(pre).k
            /\ Survives(Head(post).v, Head(pre).v)
            /\ SurviveKids(Tail(post), Tail(pre))
         \/ SurviveKids(post, Tail(pre))

BadArgs == ~last.path.isStr \/ Blank(last.path.toks) \/ ~last.fieldNameIsStr
\* The field held text that does not decode.
MalformedField(fv) == fv.py = "str" /\ ~Blank(fv.text) /\ ~Loads(fv.text).ok

\* C23: when the field holds a value that is neither text nor an object or
\* array, each of the three methods fails with ValidationError (invalid field
\* type), without compiling the path and without changing the field.
C23_InvalidFieldType ==
    (last.op # "none" /\ ~BadArgs /\ last.preField = FOther)
        => (/\ last.out.status = "ValidationError" /\ last.out.kind = "field type"
            /\ Untouched)

\* An update on a field holding a number was rejected for the field's type
\* although the path does not compile.
C23_Witness ==
    /\ last.op = "update" /\ ~BadArgs /\ last.preField = FOther
    /\ ~Compile(last.path.toks).ok
    /\ last.out.status = "ValidationError"

\* The parts of an outcome the caller and the storage see.
Visible(out) ==
    [status |-> out.status, kind |-> out.kind, ret |-> out.ret, logs |-> out.logs,
     wrote |-> out.wrote, text |-> out.text]

\* C24: update_path on an absent or blank field behaves exactly like
\* update_path on a field holding the empty object: same returned document,
\* same persisted text, same errors, for every path and value.
C24_EmptyFieldAsEmptyObject ==
    (last.op = "update" /\ EmptyField(last.preField))
        => /\ Visible(last.out) =
                Visible(UpdatePath(FText(Dumps(EmptyObj)), last.path, last.value,
                                   last.fieldNameIsStr, nullMatch))
           /\ Visible(last.out) =
                Visible(UpdatePath(FJson(EmptyObj), last.path, last.value,
                                   last.fieldNameIsStr, nullMatch))

\* An update on a blank field built a document and persisted it.
C24_Witness ==
    /\ Succeeded("update") /\ last.preField = FText(<<" ">>)
    /\ last.out.wrote /\ last.out.ret # EmptyObj
    /\ field = FText(Dumps(last.out.ret))

\* C27: delete_path on an absent or blank field returns the empty object
\* without error, without compiling the path, and without writing anything to
\* the field or to storage.
C27_DeleteOnEmptyField ==
    (last.op = "delete" /\ ~BadArgs /\ EmptyField(last.preField))
        => (/\ last.out.status = "ok" /\ last.out.ret = EmptyObj
            /\ last.out.logs = 0 /\ ~last.out.wrote
            /\ Untouched)

\* A delete on a blank field returned {} although the path does not compile.
C27_Witness ==
    /\ Succeeded("delete") /\ last.preField = FText(<<" ">>)
    /\ ~Compile(last.path.toks).ok
    /\ last.out.ret = EmptyObj

\* C29: the checks run in a fixed order in all three operations: argument
\* validation, then decoding of the field, then compilation of the path, then
\* evaluation. Invalid arguments are reported whatever the field holds; a field
\* of malformed JSON reports the JSON error even when the path is invalid too;
\* on an absent or blank field resolve_path returns the default and
\* delete_path returns {} even for a path that does not compile, while
\* update_path on such a field fails with the path syntax error; a path that
\* does not compile is reported before any evaluation of a decoded document.
C29_CheckOrder ==
    last.op # "none" =>
        /\ BadArgs
            => (last.out.status = "ValidationError" /\ last.out.kind = "argument")
        /\ (~BadArgs /\ MalformedField(last.preField))
            => (last.out.status = "DataError" /\ last.out.kind = "json")
        /\ (~BadArgs /\ EmptyField(last.preField) /\ last.op = "resolve")
            => (last.out.status = "ok" /\ last.out.kind = "default")
        /\ (~BadArgs /\ EmptyField(last.preField) /\ last.op = "delete")
            => (last.out.status = "ok" /\ last.out.ret = EmptyObj)
        /\ (~BadArgs /\ EmptyField(last.preField) /\ last.op = "update"
                /\ ~Compile(last.path.toks).ok)
            => (last.out.status = "DataError" /\ last.out.kind = "path")
        /\ (~BadArgs /\ HoldsDoc(last.preField) /\ ~Compile(last.path.toks).ok)
            => (last.out.status = "DataError" /\ last.out.kind = "path")
        /\ last.out.kind \in {"execution", "synthesis"}
            => (~BadArgs /\ Compile(last.path.toks).ok
                /\ (HoldsDoc(last.preField) \/ EmptyField(last.preField)))

\* A resolve on a field of malformed JSON with a path that does not compile
\* reported the JSON error.
C29_Witness ==
    /\ last.op = "resolve" /\ ~BadArgs
    /\ MalformedField(last.preField) /\ ~Compile(last.path.toks).ok
    /\ last.out.status = "DataError" /\ last.out.kind = "json"

\* The path is made of field and index selectors only.
FieldOrIndex(sels) == sels # <<>> /\ \A q \in 1..Len(sels) : sels[q].sel \in {"field", "index"}
\* What the first q selectors of the last call's path select in doc, members
\* holding null included.
Along(q, doc) == Find(SubSeq(LastSels, 1, q), doc, TRUE).locs
\* Step q of the path is a field step whose member the last call created.
CreatedAt(q) ==
    /\ q < Len(LastSels) /\ LastSels[q].sel = "field"
    /\ Along(q, PreDocU) = <<>>
    /\ Len(Along(q, last.out.ret)) = 1
\* The member created at step q is an array if the next selector is an index
\* and an object otherwise.
TypedByNext(q) ==
    LET made == GetAt(last.out.ret, Along(q, last.out.ret)[1])
    IN IF LastSels[q + 1].sel = "index" THEN IsList(made) ELSE IsDict(made)
\* The path of the last call selects exactly one value in doc, the value of the call.
ResolvesToValue(doc) ==
    /\ Len(Along(Len(LastSels), doc)) = 1
    /\ GetAt(doc, Along(Len(LastSels), doc)[1]) = last.value

\* C26: when a zero-match update_path creates a missing object member at a
\* field step, the created container is an array if the next selector of the
\* path is an index and an object otherwise, so that the path resolves to the
\* value afterwards.
C26_SynthesisTyping ==
    (ZeroMatchUpdate /\ Succeeded("update") /\ FieldOrIndex(LastSels)
        /\ \E q \in 1..Len(LastSels) : CreatedAt(q))
        => /\ \A q \in 1..Len(LastSels) : CreatedAt(q) => TypedByNext(q)
           /\ ResolvesToValue(last.out.ret)

\* The path has a filter or a bounded slice and neither `*` nor `..`.
FilterOrSlicePath(sels) ==
    /\ \E q \in 1..Len(sels) : sels[q].sel = "filter" \/ (sels[q].sel = "slice" /\ ~IsStar(sels[q]))
    /\ \A q \in 1..Len(sels) : sels[q].sel # "desc" /\ ~IsStar(sels[q])
\* The names of the members of the objects in a value.
RECURSIVE MemberNames(_), MemberNamesKids(_, _)
MemberNames(v) == IF IsContainer(v) THEN MemberNamesKids(v.kids, IsDict(v)) ELSE {}
MemberNamesKids(kids, keyed) ==
    IF kids = <<>> THEN {}
    ELSE (IF keyed THEN {Head(kids).k} ELSE {}) \cup MemberNames(Head(kids).v)
         \cup MemberNamesKids(Tail(kids), keyed)

\* C30: a zero-match update_path whose path contains a filter or a slice (and
\* no `*` or `..`) either fails or leaves the document unchanged; it never adds
\* an object member whose name is a fragment of the path text rather than a
\* field name of the path.
C30_NoPathFragmentMember ==
    (ZeroMatchUpdate /\ FilterOrSlicePath(LastSels))
        => /\ last.out.status # "ok" \/ last.out.ret = PreDocU
           /\ last.out.status = "ok"
                => MemberNames(last.out.ret) \subseteq MemberNames(PreDocU) \cup MemberNames(last.value)

\* The session user may run the method: what frappe.is_whitelisted tests.
Allowed(name) == name \in Whitelisted /\ (~isGuest \/ name \in GuestMethods)
\* The events the last access through the proxy added.
Added == SubSeq(events, Len(plast.preEvents) + 1, Len(events))

\* C25: a document method obtained through the proxy is run (run_method is
\* invoked) only after the whitelist check on that method passed; for a method
\* that is not whitelisted the call raises PermissionError and run_method is
\* never invoked; reading the attribute runs neither the check nor the method.
C25_WhitelistGate ==
    /\ \A q \in 1..Len(events) :
          events[q].ev = "run"
              => /\ Allowed(events[q].name)
                 /\ q > 1 /\ events[q - 1] = Event("check", events[q].name, TRUE)
    /\ (plast.op = "call" /\ ~Allowed(plast.name))
          => /\ plast.result = "PermissionError"
             /\ Added = <<Event("check", plast.name, FALSE)>>
    /\ plast.op = "getattr" => events = plast.preEvents

\* A call of a method that is not whitelisted was refused after another method
\* had run through the proxy.
C25_Witness ==
    /\ plast.op = "call" /\ plast.name \notin Whitelisted
    /\ plast.result = "PermissionError"
    /\ \E q \in 1..Len(plast.preEvents) : plast.preEvents[q].ev = "run"

\* C28: when a method called through the wrapper raises, PermissionError (from
\* the whitelist check or from the method itself) propagates unchanged and
\* every other exception is surfaced as DataError; no other exception type
\* escapes the wrapper.
C28_ErrorWrapping ==
    plast.op = "call" =>
        /\ plast.result \in {"ok", "PermissionError", "DataError"}
        /\ ~Allowed(plast.name) => plast.result = "PermissionError"
        /\ (Allowed(plast.name) /\ plast.behaviour = "PermissionError")
              => plast.result = "PermissionError"
        /\ (Allowed(plast.name) /\ plast.behaviour \in Raises \ {"PermissionError"})
              => plast.result = "DataError"
        /\ (Allowed(plast.name) /\ plast.behaviour = "returns") => plast.result = "ok"

\* A whitelisted method raised ValidationError and the template saw DataError.
C28_Witness ==
    /\ plast.op = "call" /\ Allowed(plast.name)
    /\ plast.behaviour = "ValidationError" /\ plast.result = "DataError"
    /\ Added = <<Event("check", plast.name, TRUE), Event("run", plast.name, FALSE)>>

====
